---- MODULE Spec2Model ----
(***************************************************************************)
(* A model of backend/main.py: the PDF upload pipeline (text extraction,   *)
(* AI summary with keyword fallback, persistence in the documents table),  *)
(* the history and lookup endpoints, and the keyword analyzer.             *)
(*                                                                         *)
(* Text is modelled as sequences of one-character strings, so that         *)
(* lower(), strip(), endswith(), the \b\w+\b tokenizer, the JSON           *)
(* serialization of KeywordInsight and the TEXT comparison of the          *)
(* ORDER BY clause are computed character by character.                    *)
(***************************************************************************)
EXTENDS Integers, Sequences, FiniteSets

VARIABLES
    apiKeyEnv,   \* whether SARVAM_API_KEY is set in the environment
    db,          \* the documents table: its rows in insertion order
    stamps,      \* for each row, the clock reading its upload_date was formatted from
    returned,    \* for each row, the Document its upload returned to the client
    uploadsDir,  \* the file names present in the uploads directory
    clock,       \* the wall clock
    loopOwner,   \* the request whose coroutine is running on the event loop, 0 if none
    req,         \* the requests in flight, by connection slot
    kwText,      \* the input of the keyword analyzer when it is exercised alone
    kwOut        \* and its output

vars == <<apiKeyEnv, db, stamps, returned, uploadsDir, clock, loopOwner, req, kwText, kwOut>>

(***************************************************************************)
(* Characters and strings                                                  *)
(***************************************************************************)

UpperChars == <<"A","B","C","D","E","F","G","H","I","J","K","L","M",
                "N","O","P","Q","R","S","T","U","V","W","X","Y","Z">>

LowerChars == <<"a","b","c","d","e","f","g","h","i","j","k","l","m",
                "n","o","p","q","r","s","t","u","v","w","x","y","z">>

DigitChars == <<"0","1","2","3","4","5","6","7","8","9">>

Range(s) == {s[i] : i \in DOMAIN s}

\* str.lower() on one character
LowerChar(c) ==
    IF \E i \in DOMAIN UpperChars : UpperChars[i] = c
    THEN LowerChars[CHOOSE i \in DOMAIN UpperChars : UpperChars[i] = c]
    ELSE c

\* str.lower()
Lower(s) == [i \in DOMAIN s |-> LowerChar(s[i])]

\* the characters the regular expression class \w matches
IsWordChar(c) == c \in Range(UpperChars) \cup Range(LowerChars) \cup Range(DigitChars) \cup {"_"}

\* the characters str.strip() removes
IsSpace(c) == c \in {" ", "\n", "\t"}

(***************************************************************************)
(* Keyword analyzer: get_top_keywords                                      *)
(***************************************************************************)

\* default of the num_keywords parameter
NumKeywords == 5

stop_words == {
    <<"i">>, <<"m","e">>, <<"m","y">>, <<"m","y","s","e","l","f">>, <<"w","e">>,
    <<"o","u","r">>, <<"o","u","r","s">>, <<"o","u","r","s","e","l","v","e","s">>,
    <<"y","o","u">>, <<"y","o","u","r">>, <<"y","o","u","r","s">>, <<"h","e">>,
    <<"h","i","m">>, <<"h","i","s">>, <<"s","h","e">>, <<"h","e","r">>, <<"i","t">>,
    <<"i","t","s">>, <<"t","h","e","y">>, <<"t","h","e","m">>, <<"t","h","e","i","r">>,
    <<"w","h","a","t">>, <<"w","h","i","c","h">>, <<"w","h","o">>, <<"w","h","o","m">>,
    <<"t","h","i","s">>, <<"t","h","a","t">>, <<"t","h","e","s","e">>,
    <<"t","h","o","s","e">>, <<"a","m">>, <<"i","s">>, <<"a","r","e">>, <<"w","a","s">>,
    <<"w","e","r","e">>, <<"b","e">>, <<"b","e","e","n">>, <<"b","e","i","n","g">>,
    <<"h","a","v","e">>, <<"h","a","s">>, <<"h","a","d">>, <<"h","a","v","i","n","g">>,
    <<"d","o">>, <<"d","o","e","s">>, <<"d","i","d">>, <<"d","o","i","n","g">>, <<"a">>,
    <<"a","n">>, <<"t","h","e">>, <<"a","n","d">>, <<"b","u","t">>, <<"i","f">>,
    <<"o","r">>, <<"b","e","c","a","u","s","e">>, <<"a","s">>, <<"u","n","t","i","l">>,
    <<"w","h","i","l","e">>, <<"o","f">>, <<"a","t">>, <<"b","y">>, <<"f","o","r">>,
    <<"w","i","t","h">>, <<"a","b","o","u","t">>, <<"t","o">>, <<"f","r","o","m">>,
    <<"i","n">>, <<"o","u","t">>, <<"o","n">>, <<"o","f","f">>, <<"o","v","e","r">>,
    <<"u","n","d","e","r">>, <<"a","g","a","i","n">>, <<"f","u","r","t","h","e","r">>,
    <<"t","h","e","n">>, <<"o","n","c","e">>, <<"h","e","r","e">>, <<"t","h","e","r","e">>,
    <<"w","h","e","n">>, <<"w","h","e","r","e">>, <<"w","h","y">>, <<"h","o","w">>,
    <<"a","l","l">>, <<"a","n","y">>, <<"b","o","t","h">>, <<"e","a","c","h">>,
    <<"f","e","w">>, <<"m","o","r","e">>, <<"m","o","s","t">>, <<"o","t","h","e","r">>,
    <<"s","o","m","e">>, <<"s","u","c","h">>, <<"n","o">>, <<"n","o","r">>,
    <<"n","o","t">>, <<"o","n","l","y">>, <<"o","w","n">>, <<"s","a","m","e">>,
    <<"s","o">>, <<"t","h","a","n">>, <<"t","o","o">>, <<"v","e","r","y">>, <<"s">>,
    <<"t">>, <<"c","a","n">>, <<"w","i","l","l">>, <<"j","u","s","t">>, <<"d","o","n">>,
    <<"s","h","o","u","l","d">>, <<"n","o","w">>
    }

\* re.findall(r'\b\w+\b', s): the maximal runs of word characters, in order;
\* cur is the run being read
RECURSIVE FindWordsFrom(_, _, _)
FindWordsFrom(s, i, cur) ==
    IF i > Len(s)
    THEN IF cur = <<>> THEN <<>> ELSE <<cur>>
    ELSE IF IsWordChar(s[i])
         THEN FindWordsFrom(s, i + 1, Append(cur, s[i]))
         ELSE (IF cur = <<>> THEN <<>> ELSE <<cur>>) \o FindWordsFrom(s, i + 1, <<>>)

FindWords(s) == FindWordsFrom(s, 1, <<>>)

\* a plausible slip: len(word) > 3
IsKeptLonger(word) == word \notin stop_words /\ Len(word) > 3

\* the filter of the list comprehension
IsKept(word) == word \notin stop_words /\ Len(word) > 2

RECURSIVE SelectKept(_)
SelectKept(ws) ==
    IF ws = <<>> THEN <<>>
    ELSE (IF IsKept(Head(ws)) THEN <<Head(ws)>> ELSE <<>>) \o SelectKept(Tail(ws))

\* collections.Counter: entries [word, count] in order of first insertion
CounterAdd(cnt, w) ==
    IF \E i \in DOMAIN cnt : cnt[i].word = w
    THEN [i \in DOMAIN cnt |->
            IF cnt[i].word = w THEN [word |-> w, count |-> cnt[i].count + 1] ELSE cnt[i]]
    ELSE Append(cnt, [word |-> w, count |-> 1])

RECURSIVE CounterOf(_, _)
CounterOf(ws, cnt) ==
    IF ws = <<>> THEN cnt ELSE CounterOf(Tail(ws), CounterAdd(cnt, Head(ws)))

RemoveAt(s, k) == [i \in 1..(Len(s) - 1) |-> IF i < k THEN s[i] ELSE s[i + 1]]

\* Counter.most_common(n): sorted(items, key=count, reverse=True)[:n]; the sort is
\* stable, so among equal counts the entry inserted first comes first
RECURSIVE most_common(_, _)
most_common(cnt, n) ==
    IF n = 0 \/ cnt = <<>> THEN <<>>
    ELSE LET k == CHOOSE i \in DOMAIN cnt :
                    /\ \A j \in DOMAIN cnt : cnt[j].count <= cnt[i].count
                    /\ \A j \in 1..(i - 1) : cnt[j].count < cnt[i].count
         IN  <<cnt[k]>> \o most_common(RemoveAt(cnt, k), n - 1)

\* get_top_keywords(text): the top_keywords list of the KeywordInsight it returns
get_top_keywords(text) ==
    LET words          == FindWords(Lower(text))
        filtered_words == SelectKept(words)
        word_counts    == CounterOf(filtered_words, <<>>)
        top            == most_common(word_counts, NumKeywords)
    IN  [i \in DOMAIN top |-> top[i].word]

(***************************************************************************)
(* Text extractor: extract_text_from_pdf                                   *)
(***************************************************************************)

\* A PDF file: whether pypdf can read it, and what extract_text() gives for each
\* page (a string, or None when has is FALSE)
Page(t)  == [has |-> TRUE, text |-> t]
NonePage == [has |-> FALSE, text |-> <<>>]

RECURSIVE ConcatPages(_)
ConcatPages(pages) ==
    IF pages = <<>> THEN <<>>
    ELSE (IF Head(pages).has THEN Head(pages).text ELSE <<>>) \o ConcatPages(Tail(pages))

\* the text returned, or the HTTPException(500) raised from the except branch
extract_text_from_pdf(pdf) ==
    IF pdf.parses
    THEN [raised |-> FALSE, text |-> ConcatPages(pdf.pages)]
    ELSE [raised |-> TRUE, text |-> <<>>]

(***************************************************************************)
(* Summarizer client: get_ai_summary                                       *)
(***************************************************************************)

\* JSON values, tagged by type
JNull     == [t |-> "null"]
JStr(s)   == [t |-> "str", v |-> s]
JList(xs) == [t |-> "list", v |-> xs]
JObj(f)   == [t |-> "obj", v |-> f]
EmptyObj  == JObj(<<>>)

\* dict.get(key, default)
Get(obj, key, default) == IF key \in DOMAIN obj.v THEN obj.v[key] ELSE default

\* str.strip()
RECURSIVE LStrip(_)
LStrip(s) == IF s # <<>> /\ IsSpace(Head(s)) THEN LStrip(Tail(s)) ELSE s

RECURSIVE RStrip(_)
RStrip(s) ==
    IF s # <<>> /\ IsSpace(s[Len(s)]) THEN RStrip(SubSeq(s, 1, Len(s) - 1)) ELSE s

Strip(s) == RStrip(LStrip(s))

ReturnNone       == [outcome |-> "none", summary |-> <<>>, exc |-> ""]
ReturnSummary(s) == [outcome |-> "summary", summary |-> s, exc |-> ""]
Raise(e)         == [outcome |-> "raise", summary |-> <<>>, exc |-> e]

\* line 118: data.get("choices", [{}])[0].get("message", {}).get("content", "").strip()
\* Each step raises what Python raises when the value has the wrong type.
ContentOf(data) ==
    IF data.t # "obj" THEN Raise("AttributeError")
    ELSE LET choices == Get(data, "choices", JList(<<EmptyObj>>)) IN
         IF choices.t = "null" THEN Raise("TypeError")
         ELSE IF choices.t = "obj" THEN Raise("KeyError")
         ELSE IF choices.t = "list" /\ choices.v = <<>> THEN Raise("IndexError")
         ELSE IF choices.t = "str"
              THEN Raise(IF choices.v = <<>> THEN "IndexError" ELSE "AttributeError")
         ELSE LET first == choices.v[1] IN
              IF first.t # "obj" THEN Raise("AttributeError")
              ELSE LET message == Get(first, "message", EmptyObj) IN
                   IF message.t # "obj" THEN Raise("AttributeError")
                   ELSE LET content == Get(message, "content", JStr(<<>>)) IN
                        IF content.t # "str" THEN Raise("AttributeError")
                        ELSE LET summary == Strip(content.v) IN
                             IF summary # <<>> THEN ReturnSummary(summary) ELSE ReturnNone

\* the try block: resp is what the network and the provider did. Only requests.exceptions.RequestException is
\* caught (ConnectionError, Timeout, the HTTPError of raise_for_status, and the
\* JSONDecodeError of response.json()); anything else propagates to the caller.
AfterPost(resp) ==
    CASE resp.kind = "conn_error" -> ReturnNone
      [] resp.kind = "timeout"    -> ReturnNone
      [] resp.kind = "http" /\ resp.code >= 400 -> ReturnNone
      [] resp.kind = "http" /\ resp.code < 400 /\ ~resp.json -> ReturnNone
      [] OTHER -> ContentOf(resp.data)

\* get_ai_summary once requests.post has returned or raised. The request is
\* posted whatever SARVAM_API_KEY holds: line 25 gives the key a default when
\* the environment has none, and nothing tests it before line 115.
get_ai_summary(resp) == AfterPost(resp)

(***************************************************************************)
(* The insights column: KeywordInsight.json() and KeywordInsight.parse_raw *)
(***************************************************************************)

Quote == "\""

KeyName == <<"t","o","p","_","k","e","y","w","o","r","d","s">>

Quoted(s) == <<Quote>> \o s \o <<Quote>>

RECURSIVE JoinQuoted(_)
JoinQuoted(ws) ==
    IF ws = <<>> THEN <<>>
    ELSE IF Len(ws) = 1 THEN Quoted(ws[1])
    ELSE Quoted(ws[1]) \o <<",", " ">> \o JoinQuoted(Tail(ws))

\* KeywordInsight(top_keywords=ws).json(): {"top_keywords": ["w1", "w2"]}
KeywordInsightJson(ws) ==
    <<"{">> \o Quoted(KeyName) \o <<":", " ", "[">> \o JoinQuoted(ws) \o <<"]", "}">>

\* The JSON lexer on the stored text: punctuation, string literals (tagged "s"),
\* white space skipped; anything else is an error token
Punct == {"{", "}", "[", "]", ":", ","}

RECURSIVE Lex(_, _)
Lex(s, i) ==
    IF i > Len(s) THEN <<>>
    ELSE IF IsSpace(s[i]) THEN Lex(s, i + 1)
    ELSE IF s[i] \in Punct THEN <<[k |-> "p", v |-> <<s[i]>>]>> \o Lex(s, i + 1)
    ELSE IF s[i] = Quote
         THEN IF \E j \in (i + 1)..Len(s) : s[j] = Quote
              THEN LET j == CHOOSE j \in (i + 1)..Len(s) :
                                /\ s[j] = Quote
                                /\ \A m \in (i + 1)..(j - 1) : s[m] # Quote
                   IN  <<[k |-> "s", v |-> SubSeq(s, i + 1, j - 1)]>> \o Lex(s, j + 1)
              ELSE <<[k |-> "error", v |-> <<>>]>>
    ELSE <<[k |-> "error", v |-> <<>>]>>

P(c) == [k |-> "p", v |-> <<c>>]

\* the elements of a JSON list of strings: str ("," str)*
RECURSIVE Items(_, _)
Items(toks, i) ==
    IF i > Len(toks) \/ toks[i].k # "s" THEN [ok |-> FALSE, items |-> <<>>, next |-> i]
    ELSE IF i + 1 <= Len(toks) /\ toks[i + 1] = P(",")
         THEN LET rest == Items(toks, i + 2)
              IN  [ok |-> rest.ok, items |-> <<toks[i].v>> \o rest.items, next |-> rest.next]
         ELSE [ok |-> TRUE, items |-> <<toks[i].v>>, next |-> i + 1]

ParseFailed == [ok |-> FALSE, top_keywords |-> <<>>]

\* KeywordInsight.parse_raw(text): the model parsed, or the ValidationError raised
\* (ok FALSE) when the text is not a JSON object {"top_keywords": [strings]}
parse_raw(s) ==
    LET toks == Lex(s, 1) IN
    IF Len(toks) < 6 \/ \E i \in DOMAIN toks : toks[i].k = "error" THEN ParseFailed
    ELSE IF ~(/\ toks[1] = P("{")
              /\ toks[2] = [k |-> "s", v |-> KeyName]
              /\ toks[3] = P(":")
              /\ toks[4] = P("[")) THEN ParseFailed
    ELSE IF toks[5] = P("]")
         THEN IF Len(toks) = 6 /\ toks[6] = P("}")
              THEN [ok |-> TRUE, top_keywords |-> <<>>] ELSE ParseFailed
    ELSE LET it == Items(toks, 5) IN
         IF /\ it.ok
            /\ Len(toks) = it.next + 1
            /\ toks[it.next] = P("]")
            /\ toks[it.next + 1] = P("}")
         THEN [ok |-> TRUE, top_keywords |-> it.items] ELSE ParseFailed

\* The insights field of a Document: Union[str, KeywordInsight]
StrInsight(s)      == [type |-> "str", value |-> s, top_keywords |-> <<>>]
KeywordInsight(ws) == [type |-> "KeywordInsight", value |-> <<>>, top_keywords |-> ws]

Document(id, filename, upload_date, processed_by, insights) ==
    [id |-> id, filename |-> filename, upload_date |-> upload_date,
     processed_by |-> processed_by, insights |-> insights]

\* a read path that takes every payload for a plain string
DecodeRowAsText(row) ==
    [raised |-> FALSE,
     doc |-> Document(row.id, row.filename, row.upload_date, row.processed_by,
                      StrInsight(row.insights))]

\* Lines 218-234 and 247-262: a row decoded according to its processed_by; raised
\* when parse_raw raises
DecodeRow(row) ==
    IF row.processed_by = "Keyword"
    THEN LET parsed == parse_raw(row.insights) IN
         [raised |-> ~parsed.ok,
          doc |-> Document(row.id, row.filename, row.upload_date, row.processed_by,
                           KeywordInsight(parsed.top_keywords))]
    ELSE [raised |-> FALSE,
          doc |-> Document(row.id, row.filename, row.upload_date, row.processed_by,
                           StrInsight(row.insights))]

(***************************************************************************)
(* upload_date: datetime.now().isoformat(), compared as TEXT by ORDER BY   *)
(***************************************************************************)

\* Clock readings <<second, microsecond>> within one minute; the date, hour and
\* minute fields are the same for all of them and are left out of the text
Times == {<<9, 0>>, <<9, 500000>>, <<10, 0>>}

TimeLess(a, b) == a[1] < b[1] \/ (a[1] = b[1] /\ a[2] < b[2])

Digit(n) == DigitChars[n + 1]

TwoDigits(n) == <<Digit(n \div 10), Digit(n % 10)>>

SixDigits(n) ==
    <<Digit(n \div 100000), Digit((n \div 10000) % 10), Digit((n \div 1000) % 10),
      Digit((n \div 100) % 10), Digit((n \div 10) % 10), Digit(n % 10)>>

\* isoformat(): SS.ffffff, and SS alone when the microsecond is 0
IsoFormat(t) == TwoDigits(t[1]) \o (IF t[2] = 0 THEN <<>> ELSE <<".">> \o SixDigits(t[2]))

\* the code point order of the characters of a timestamp
Ord(c) == CHOOSE i \in 1..11 : (<<".">> \o DigitChars)[i] = c

\* SQLite's BINARY collation on TEXT: memcmp, a proper prefix comes first
RECURSIVE TextLess(_, _)
TextLess(a, b) ==
    IF b = <<>> THEN FALSE
    ELSE IF a = <<>> THEN TRUE
    ELSE IF Head(a) # Head(b) THEN Ord(Head(a)) < Ord(Head(b))
    ELSE TextLess(Tail(a), Tail(b))

Perms(n) == {p \in [1..n -> 1..n] : \A i, j \in 1..n : i # j => p[i] # p[j]}

\* the same query with ORDER BY upload_date ASC
SelectAllOldestFirst(rows) ==
    {[i \in DOMAIN rows |-> rows[p[i]]] : p \in
        {q \in Perms(Len(rows)) : \A i, j \in DOMAIN rows :
            i < j => ~TextLess(rows[q[j]].upload_date, rows[q[i]].upload_date)}}

\* SELECT * FROM documents ORDER BY upload_date DESC: the orders the query may
\* return (rows with equal upload_date come in an order SQL leaves open)
SelectAllNewestFirst(rows) ==
    {[i \in DOMAIN rows |-> rows[p[i]]] : p \in
        {q \in Perms(Len(rows)) : \A i, j \in DOMAIN rows :
            i < j => ~TextLess(rows[q[i]].upload_date, rows[q[j]].upload_date)}}

\* SELECT * FROM documents WHERE id = ?: fetchone()
SelectById(rows, id) == {i \in DOMAIN rows : rows[i].id = id}

(***************************************************************************)
(* Bounds and inputs                                                       *)
(***************************************************************************)

\* connections open at once, where requests overlap
NumSlots == 2

\* rows the documents table may grow to, where the inputs are many
PipelineDocs == 2

\* rows the documents table may grow to, where the table is listed
HistoryDocs == 3

Slots == 1..NumSlots

PdfName == <<"R",".","P","d","f">>

Filenames == {
    PdfName,
    <<"a",".","p","d","f">>,
    <<"a",".","t","x","t">>,
    <<".","p","d","f","x">>,
    <<"p","d","f">>
    }

CorruptPdf == [parses |-> FALSE, pages |-> <<>>]
ScannedPdf == [parses |-> TRUE, pages |-> <<NonePage, NonePage>>]
BlankPdf   == [parses |-> TRUE, pages |-> <<Page(<<" ">>), NonePage, Page(<<"\n">>)>>]
ResumePdf  == [parses |-> TRUE,
               pages |-> <<Page(<<"C","a","t"," ","d","o","g"," ">>), NonePage,
                           Page(<<"c","a","t">>)>>]

Pdfs == {CorruptPdf, ScannedPdf, BlankPdf, ResumePdf}

\* What the network and the provider may answer to the one POST
NoResponse     == [kind |-> "none", code |-> 0, json |-> FALSE, data |-> JNull]
ConnError      == [kind |-> "conn_error", code |-> 0, json |-> FALSE, data |-> JNull]
TimedOut       == [kind |-> "timeout", code |-> 0, json |-> FALSE, data |-> JNull]
Http(code)     == [kind |-> "http", code |-> code, json |-> FALSE, data |-> JNull]
HttpJson(data) == [kind |-> "http", code |-> 200, json |-> TRUE, data |-> data]

Choices(first)   == JObj([choices |-> JList(<<first>>)])
Message(content) == Choices(JObj([message |-> JObj([content |-> content])]))

SummaryText == <<" ","A"," ","b","\n">>

GoodResponse == HttpJson(Message(JStr(SummaryText)))

\* the bodies that carry no usable summary: a field missing, null or empty
MalformedBodies == {
    EmptyObj,
    JList(<<>>),
    JObj([choices |-> JNull]),
    JObj([choices |-> JList(<<>>)]),
    Choices(EmptyObj),
    Choices(JObj([message |-> JNull])),
    Choices(JObj([message |-> EmptyObj])),
    Message(JNull),
    Message(JStr(<<>>)),
    Message(JStr(<<" ", " ">>))
    }

FailedResponses ==
    {ConnError, TimedOut, Http(401), Http(500), Http(200)}
        \cup {HttpJson(d) : d \in MalformedBodies}

Responses == FailedResponses \cup {GoodResponse}

\* The inputs of a run: the uploads' names and files, whether the file system
\* lets the file be opened and written, the provider's answers, and the cap
\* on the table
ManyInputs ==
    [names |-> Filenames, opens |-> BOOLEAN, pdfs |-> Pdfs, writes |-> BOOLEAN,
     resps |-> Responses, cap |-> PipelineDocs]

FewInputs ==
    [names |-> {PdfName}, opens |-> {TRUE}, pdfs |-> {ResumePdf}, writes |-> {TRUE},
     resps |-> {ConnError, GoodResponse}, cap |-> HistoryDocs]

(***************************************************************************)
(* Requests                                                                *)
(***************************************************************************)

NoDoc == Document(0, <<>>, <<>>, "", StrInsight(<<>>))

IdleSlot ==
    [kind |-> "none", pc |-> "idle", filename |-> <<>>, pdf |-> CorruptPdf,
     text |-> <<>>, sresp |-> NoResponse, httpCalls |-> 0, kwCalls |-> 0,
     status |-> 0, detail |-> "", doc |-> NoDoc, docs |-> <<>>, docId |-> 0,
     seen |-> 0]

\* a response: the status code and detail, the slot's work over
Respond(slot, status, detail) ==
    [slot EXCEPT !.pc = "done", !.status = status, !.detail = detail]

\* an exception no handler catches: the server answers 500 Internal Server Error
Crash(slot, exc) == Respond(slot, 500, exc)

HTTPExceptionDetails == {
    "Invalid file type. Please upload a PDF.",
    "Could not save file.",
    "Failed to extract text from PDF.",
    "PDF is empty or text could not be extracted.",
    "Document not found."
    }

Crashed(slot) == slot.status = 500 /\ slot.detail \notin HTTPExceptionDetails

UploadsInFlight ==
    Cardinality({r \in Slots : req[r].kind = "upload" /\ req[r].pc # "done"})

\* a client sends a request on connection r
Arrive(r, kind, cap) ==
    /\ req[r].pc = "idle"
    /\ kind = "upload" => Len(db) + UploadsInFlight < cap
    /\ req' = [req EXCEPT ![r] = [IdleSlot EXCEPT !.kind = kind, !.pc = "accepted"]]
    /\ UNCHANGED <<apiKeyEnv, db, stamps, returned, uploadsDir, clock, loopOwner,
                   kwText, kwOut>>

EndsWith(s, suffix) ==
    /\ Len(s) >= Len(suffix)
    /\ SubSeq(s, Len(s) - Len(suffix) + 1, Len(s)) = suffix

DotPdf == <<".","p","d","f">>

\* a test for ".pdf" anywhere in the name
ContainsDotPdf(filename) ==
    \E i \in 1..Len(filename) :
        i + 3 <= Len(filename) /\ SubSeq(Lower(filename), i, i + 3) = DotPdf

\* line 157: file.filename.lower().endswith('.pdf')
IsPdfName(filename) == EndsWith(Lower(filename), DotPdf)

\* Lines 157-165, up to the await of file.read(): the extension test, then the
\* file opened for writing in the uploads directory
UploadBegin(r, in) ==
    /\ req[r].kind = "upload" /\ req[r].pc = "accepted"
    /\ loopOwner = 0
    /\ \E filename \in in.names, opened \in in.opens :
        LET slot == [req[r] EXCEPT !.filename = filename] IN
        IF ~IsPdfName(filename)
        THEN /\ req' = [req EXCEPT ![r] =
                    Respond(slot, 400, "Invalid file type. Please upload a PDF.")]
             /\ UNCHANGED uploadsDir
        ELSE IF ~opened
        THEN /\ req' = [req EXCEPT ![r] = Respond(slot, 500, "Could not save file.")]
             /\ UNCHANGED uploadsDir
        ELSE /\ req' = [req EXCEPT ![r] = [slot EXCEPT !.pc = "reading"]]
             /\ uploadsDir' = uploadsDir \cup {filename}
    /\ UNCHANGED <<apiKeyEnv, db, stamps, returned, clock, loopOwner, kwText, kwOut>>

\* Lines 165-177, from the resumption after file.read() to requests.post: the
\* bytes written, the text extracted, and the coroutine then inside the blocking
\* call of line 115 without having given the event loop back
UploadProcess(r, in) ==
    /\ req[r].kind = "upload" /\ req[r].pc = "reading"
    /\ loopOwner = 0
    /\ \E pdf \in in.pdfs, written \in in.writes :
        LET slot      == [req[r] EXCEPT !.pdf = pdf]
            extracted == extract_text_from_pdf(pdf)
        IN
        IF ~written
        THEN /\ req' = [req EXCEPT ![r] = Respond(slot, 500, "Could not save file.")]
             /\ UNCHANGED loopOwner
        ELSE IF extracted.raised
        THEN /\ req' = [req EXCEPT ![r] =
                    Respond(slot, 500, "Failed to extract text from PDF.")]
             /\ UNCHANGED loopOwner
        ELSE IF extracted.text = <<>>
        THEN /\ req' = [req EXCEPT ![r] =
                    Respond(slot, 500, "PDF is empty or text could not be extracted.")]
             /\ UNCHANGED loopOwner
        ELSE /\ req' = [req EXCEPT ![r] =
                    [slot EXCEPT !.pc = "summarizing", !.text = extracted.text,
                                 !.httpCalls = @ + 1]]
             /\ loopOwner' = r
    /\ UNCHANGED <<apiKeyEnv, db, stamps, returned, uploadsDir, clock, kwText, kwOut>>

\* Lines 115-207: the answer to the POST, the insight resolved, the row inserted
\* and the Document returned
SummarizerReturn(r, in) ==
    /\ req[r].kind = "upload" /\ req[r].pc = "summarizing"
    /\ loopOwner = r
    /\ loopOwner' = 0
    /\ \E resp \in in.resps, now \in Times :
        LET slot             == [req[r] EXCEPT !.sresp = resp]
            insights_content == get_ai_summary(resp)
            fallback         == insights_content.outcome = "none"
            keywords         == get_top_keywords(slot.text)
            processed_by     == IF fallback THEN "Keyword" ELSE "AI"
            insights_json    == IF fallback THEN KeywordInsightJson(keywords)
                                ELSE insights_content.summary
            doc_id           == Len(db) + 1
            upload_time      == IsoFormat(now)
            row              == [id |-> doc_id, filename |-> slot.filename,
                                 upload_date |-> upload_time,
                                 processed_by |-> processed_by,
                                 insights |-> insights_json]
            document         == Document(doc_id, slot.filename, upload_time, processed_by,
                                    IF fallback THEN KeywordInsight(keywords)
                                    ELSE StrInsight(insights_content.summary))
        IN
        IF insights_content.outcome = "raise"
        THEN /\ now = clock
             /\ req' = [req EXCEPT ![r] = Crash(slot, insights_content.exc)]
             /\ UNCHANGED <<db, stamps, returned, clock>>
        ELSE /\ ~TimeLess(now, clock)
             /\ clock' = now
             /\ db' = Append(db, row)
             /\ stamps' = Append(stamps, now)
             /\ returned' = Append(returned, document)
             /\ req' = [req EXCEPT ![r] =
                    [Respond(slot, 200, "") EXCEPT
                        !.kwCalls = IF fallback THEN @ + 1 ELSE @,
                        !.doc = document, !.docId = doc_id]]
    /\ UNCHANGED <<apiKeyEnv, uploadsDir, kwText, kwOut>>

\* get_history and get_insights are plain functions: the event loop hands each
\* call to a worker thread
ReadDispatch(r) ==
    /\ req[r].kind \in {"history", "lookup"} /\ req[r].pc = "accepted"
    /\ loopOwner = 0
    /\ req' = [req EXCEPT ![r].pc = "in_thread"]
    /\ UNCHANGED <<apiKeyEnv, db, stamps, returned, uploadsDir, clock, loopOwner,
                   kwText, kwOut>>

\* the loop of lines 217-234: the first row that does not decode ends it
RECURSIVE DecodeAll(_)
DecodeAll(rows) ==
    IF rows = <<>> THEN [raised |-> FALSE, docs |-> <<>>]
    ELSE LET first == DecodeRow(Head(rows)) IN
         IF first.raised THEN [raised |-> TRUE, docs |-> <<>>]
         ELSE LET rest == DecodeAll(Tail(rows)) IN
              [raised |-> rest.raised,
               docs |-> IF rest.raised THEN <<>> ELSE <<first.doc>> \o rest.docs]

\* Lines 212-235, in the worker thread
HistoryRun(r) ==
    /\ req[r].kind = "history" /\ req[r].pc = "in_thread"
    /\ \E docs_cursor \in SelectAllNewestFirst(db) :
        LET slot    == [req[r] EXCEPT !.seen = Len(db)]
            decoded == DecodeAll(docs_cursor)
        IN
        req' = [req EXCEPT ![r] =
                    IF decoded.raised
                    THEN [Crash(slot, "ValidationError") EXCEPT !.pc = "to_send"]
                    ELSE [Respond(slot, 200, "") EXCEPT
                            !.pc = "to_send", !.docs = decoded.docs]]
    /\ UNCHANGED <<apiKeyEnv, db, stamps, returned, uploadsDir, clock, loopOwner,
                   kwText, kwOut>>

\* Lines 240-262, in the worker thread
LookupRun(r) ==
    /\ req[r].kind = "lookup" /\ req[r].pc = "in_thread"
    /\ \E document_id \in 1..(Len(db) + 1) :
        LET slot  == [req[r] EXCEPT !.docId = document_id, !.seen = Len(db)]
            found == SelectById(db, document_id)
        IN
        req' = [req EXCEPT ![r] =
                    IF found = {}
                    THEN [Respond(slot, 404, "Document not found.") EXCEPT !.pc = "to_send"]
                    ELSE LET decoded == DecodeRow(db[CHOOSE i \in found : TRUE]) IN
                         IF decoded.raised
                         THEN [Crash(slot, "ValidationError") EXCEPT !.pc = "to_send"]
                         ELSE [Respond(slot, 200, "") EXCEPT
                                !.pc = "to_send", !.doc = decoded.doc]]
    /\ UNCHANGED <<apiKeyEnv, db, stamps, returned, uploadsDir, clock, loopOwner,
                   kwText, kwOut>>

\* the worker thread's result is sent by the event loop
ReadRespond(r) ==
    /\ req[r].pc = "to_send"
    /\ loopOwner = 0
    /\ req' = [req EXCEPT ![r].pc = "done"]
    /\ UNCHANGED <<apiKeyEnv, db, stamps, returned, uploadsDir, clock, loopOwner,
                   kwText, kwOut>>

\* the client has its response; the connection serves the next request
ClientReceive(r) ==
    /\ req[r].pc = "done"
    /\ req' = [req EXCEPT ![r] = IdleSlot]
    /\ UNCHANGED <<apiKeyEnv, db, stamps, returned, uploadsDir, clock, loopOwner,
                   kwText, kwOut>>

\* the next step of the request on connection r, once it has arrived
Step(r, in) ==
    \/ UploadBegin(r, in)
    \/ UploadProcess(r, in)
    \/ SummarizerReturn(r, in)
    \/ ReadDispatch(r)
    \/ HistoryRun(r)
    \/ LookupRun(r)
    \/ ReadRespond(r)

\* one connection's traffic
Serve(r, in) ==
    \/ \E kind \in {"upload", "history", "lookup"} : Arrive(r, kind, in.cap)
    \/ Step(r, in)
    \/ ClientReceive(r)

NotRun == [done |-> FALSE, top_keywords |-> <<>>]

\* Lines 25-68: the module loaded, the environment read, the table created
Start(keys, rows, at) ==
    /\ apiKeyEnv \in keys
    /\ db = rows
    /\ stamps = at
    /\ returned = [i \in DOMAIN rows |-> NoDoc]
    /\ uploadsDir = {}
    /\ clock = <<9, 0>>
    /\ loopOwner = 0
    /\ req = [r \in Slots |-> IdleSlot]
    /\ kwOut = NotRun

(***************************************************************************)
(* One client, one request at a time, over every kind of upload            *)
(***************************************************************************)

Init == Start({"unset", "set"}, <<>>, <<>>) /\ kwText = <<>>

Next == Serve(1, ManyInputs)

Spec == Init /\ [][Next]_vars

(***************************************************************************)
(* One client filling and listing the table                                *)
(***************************************************************************)

InitHistory == Start({"set"}, <<>>, <<>>) /\ kwText = <<>>

NextHistory == Serve(1, FewInputs)

SpecHistory == InitHistory /\ [][NextHistory]_vars

(***************************************************************************)
(* Several clients at once                                                 *)
(***************************************************************************)

NextConcurrent == \E r \in Slots : Serve(r, FewInputs)

SpecConcurrent == InitHistory /\ [][NextConcurrent]_vars

(***************************************************************************)
(* A table left by an earlier run                                          *)
(***************************************************************************)

\* document_insights.db outlives the process and create_table keeps what it
\* holds (CREATE TABLE IF NOT EXISTS): here a Keyword row whose insights are the
\* keywords joined by ", ", not the JSON that parse_raw reads
JoinedRow ==
    [id |-> 1, filename |-> PdfName, upload_date |-> IsoFormat(<<9, 0>>),
     processed_by |-> "Keyword", insights |-> <<"c","a","t",","," ","d","o","g">>]

InitExisting == Start({"set"}, <<JoinedRow>>, <<<<9, 0>>>>) /\ kwText = <<>>

SpecExisting == InitExisting /\ [][NextHistory]_vars

(***************************************************************************)
(* The keyword analyzer alone                                              *)
(***************************************************************************)

\* phrases a text is made of
MaxChunks == 4

Phrases == {
    <<"c","a","t">>,
    <<"C","a","T">>,
    <<"d","o","g">>,
    <<"T","h","e">>,
    <<"o","x">>,
    <<"b","i","r","d",",","e","m","u","-","f","o","x","\n","y","a","k","_","1">>
    }

RECURSIVE JoinPhrases(_)
JoinPhrases(ps) ==
    IF ps = <<>> THEN <<>>
    ELSE IF Len(ps) = 1 THEN ps[1]
    ELSE ps[1] \o <<" ">> \o JoinPhrases(Tail(ps))

ExampleText ==
    <<"c","a","t"," ","c","a","t"," ","d","o","g"," ","d","o","g"," ","d","o","g"," ",
      "b","i","r","d">>

KwTexts ==
    {JoinPhrases(ps) : ps \in UNION {[1..n -> Phrases] : n \in 0..MaxChunks}}
        \cup {ExampleText}

InitKw ==
    /\ Start({"set"}, <<>>, <<>>)
    /\ kwText \in KwTexts

KwApply ==
    /\ ~kwOut.done
    /\ kwOut' = [done |-> TRUE, top_keywords |-> get_top_keywords(kwText)]
    /\ UNCHANGED <<apiKeyEnv, db, stamps, returned, uploadsDir, clock, loopOwner, req,
                   kwText>>

NextKw == KwApply

SpecKw == InitKw /\ [][NextKw]_vars

(***************************************************************************)
(* Properties                                                              *)
(***************************************************************************)

Blank(s) == \A i \in DOMAIN s : IsSpace(s[i])

UploadDone(s) == s.kind = "upload" /\ s.pc = "done"

ReadDone(s, kind) == s.kind = kind /\ s.pc \in {"to_send", "done"}

\* the rows of the table carrying the id
RowsWithId(id) == {i \in DOMAIN db : db[i].id = id}

\* the record of a finished upload is stored once, as the upload returned it
StoredOnce(s) ==
    /\ Cardinality(RowsWithId(s.doc.id)) = 1
    /\ \A i \in RowsWithId(s.doc.id) :
        /\ db[i].processed_by = s.doc.processed_by
        /\ db[i].filename = s.doc.filename
        /\ ~DecodeRow(db[i]).raised
        /\ DecodeRow(db[i]).doc = s.doc

\* C1: an upload whose text was extracted and whose summarizer call failed
\* (network error, timeout, error status, non-JSON or malformed body) ends with
\* exactly one record, stored and returned, tagged Keyword and carrying
\* get_top_keywords of the extracted text.
C1_FailureFallsBackToKeywords ==
    \A r \in Slots :
        (UploadDone(req[r]) /\ ~Blank(req[r].text) /\ req[r].sresp \in FailedResponses) =>
            /\ req[r].status = 200
            /\ req[r].doc.processed_by = "Keyword"
            /\ req[r].doc.insights = KeywordInsight(get_top_keywords(req[r].text))
            /\ StoredOnce(req[r])

\* C2: an upload whose text was extracted ends, after exactly one summarizer
\* attempt, as AI or as Keyword, with the record carrying that insight stored
\* and returned; none ends without an insight.
C2_EveryUploadEndsWithInsight ==
    \A r \in Slots :
        (UploadDone(req[r]) /\ ~Blank(req[r].text)) =>
            /\ req[r].httpCalls = 1
            /\ req[r].status = 200
            /\ req[r].doc.processed_by \in {"AI", "Keyword"}
            /\ req[r].doc.processed_by = "AI" => req[r].doc.insights.value # <<>>
            /\ StoredOnce(req[r])

\* the file cannot be parsed, or its pages' text is empty or white space only
Unreadable(pdf) == ~pdf.parses \/ Blank(ConcatPages(pdf.pages))

\* C3: an upload of a .pdf file that cannot be parsed, or whose text is empty
\* or only white space, ends in a failure response, with neither the summarizer
\* nor the keyword analyzer called and no row inserted.
C3_UnreadablePdfIsRejected ==
    \A r \in Slots :
        (req[r].kind = "upload" /\ req[r].pc \in {"summarizing", "done"}
            /\ Unreadable(req[r].pdf)) =>
            /\ req[r].pc = "done"
            /\ req[r].status >= 400
            /\ req[r].httpCalls = 0
            /\ req[r].kwCalls = 0
            /\ req[r].docId = 0

\* the name's last four characters are ".pdf" in any mix of cases
HasPdfExtension(f) ==
    /\ Len(f) >= 4
    /\ f[Len(f) - 3] = "."
    /\ f[Len(f) - 2] \in {"p", "P"}
    /\ f[Len(f) - 1] \in {"d", "D"}
    /\ f[Len(f)] \in {"f", "F"}

\* C4: the step that handles an upload whose file name does not end in .pdf
\* (in any case) answers 400 and changes nothing: no row, no file in the
\* uploads directory, no call of the summarizer.
C4_NonPdfRejectedWithoutEffect ==
    [][\A r \in Slots :
        (/\ req[r].kind = "upload" /\ req[r].pc = "accepted"
         /\ req'[r].pc # "accepted"
         /\ ~HasPdfExtension(req'[r].filename)) =>
            /\ req'[r].pc = "done"
            /\ req'[r].status = 400
            /\ req'[r].httpCalls = 0
            /\ req'[r].kwCalls = 0
            /\ db' = db
            /\ uploadsDir' = uploadsDir
            /\ loopOwner' = loopOwner]_vars

C4_Witness ==
    \E r \in Slots :
        /\ UploadDone(req[r])
        /\ req[r].status = 400
        /\ req[r].filename = <<".","p","d","f","x">>
        /\ Len(db) > 0

\* C5: what GET /insights/{id} and GET /history/ decode from a row is the
\* Document its upload returned: the same summary string for an AI row, the
\* same ordered keyword list for a Keyword row.
C5_ReadsReturnWhatUploadReturned ==
    \A r \in Slots :
        /\ (ReadDone(req[r], "lookup") /\ req[r].docId <= req[r].seen) =>
                /\ req[r].status = 200
                /\ req[r].doc = returned[req[r].docId]
                /\ req[r].doc.insights.type =
                      (IF req[r].doc.processed_by = "AI" THEN "str" ELSE "KeywordInsight")
        /\ ReadDone(req[r], "history") =>
                /\ req[r].status = 200
                /\ Len(req[r].docs) = req[r].seen
                /\ \A k \in DOMAIN req[r].docs :
                        req[r].docs[k] = returned[req[r].docs[k].id]

C5_Witness ==
    \E r \in Slots :
        /\ ReadDone(req[r], "lookup")
        /\ req[r].status = 200
        /\ req[r].doc.processed_by = "Keyword"
        /\ req[r].doc.insights.top_keywords = <<<<"c","a","t">>, <<"d","o","g">>>>
        /\ \E i \in DOMAIN db : db[i].processed_by = "AI"

\* C6: with SARVAM_API_KEY unset no request is posted to the summarizer and
\* every upload that succeeds is tagged Keyword.
C6_NoKeyMeansKeywordOnly ==
    apiKeyEnv = "unset" =>
        \A r \in Slots :
            /\ req[r].httpCalls = 0
            /\ (UploadDone(req[r]) /\ req[r].status = 200) =>
                    req[r].doc.processed_by = "Keyword"

\* C7: GET /history/ decodes each row by its own processed_by, and a row whose
\* payload does not decode does not end the listing: the request does not
\* crash and every other row is returned.
C7_HistoryIsolatesDecodeFailures ==
    \A r \in Slots :
        ReadDone(req[r], "history") =>
            /\ ~Crashed(req[r])
            /\ \A i \in 1..req[r].seen :
                    ~DecodeRow(db[i]).raised =>
                        \E k \in DOMAIN req[r].docs : req[r].docs[k] = DecodeRow(db[i]).doc

\* the clock reading the row with the id was stamped with
StampOf(id) == stamps[CHOOSE i \in DOMAIN db : db[i].id = id]

\* C8: GET /history/ returns every stored row exactly once, newest upload
\* first: no document comes before one uploaded later.
C8_HistoryNewestFirst ==
    \A r \in Slots :
        ReadDone(req[r], "history") =>
            /\ req[r].status = 200
            /\ Len(req[r].docs) = req[r].seen
            /\ \A i \in 1..req[r].seen :
                    Cardinality({k \in DOMAIN req[r].docs : req[r].docs[k].id = db[i].id}) = 1
            /\ \A j, k \in DOMAIN req[r].docs :
                    j < k => ~TimeLess(StampOf(req[r].docs[j].id), StampOf(req[r].docs[k].id))

C8_Witness ==
    \E r \in Slots :
        /\ ReadDone(req[r], "history")
        /\ stamps = <<<<9, 0>>, <<9, 500000>>, <<10, 0>>>>
        /\ [k \in DOMAIN req[r].docs |-> req[r].docs[k].id] = <<3, 2, 1>>

\* Where the maximal runs of word characters of a text start and end
RunStarts(s) == {i \in DOMAIN s : IsWordChar(s[i]) /\ (i = 1 \/ ~IsWordChar(s[i - 1]))}

RunEnds(s) == {j \in DOMAIN s : IsWordChar(s[j]) /\ (j = Len(s) \/ ~IsWordChar(s[j + 1]))}

\* The tokens of a text: each maximal run, case-folded, with where it starts
Tokens(s) ==
    LET ends == RunEnds(s) IN
    {[at |-> i,
      word |-> Lower(SubSeq(s, i, CHOOSE j \in ends :
                                    j >= i /\ \A e \in ends : e >= i => j <= e))] :
        i \in RunStarts(s)}

Frequency(tokens, w) == Cardinality({t \in tokens : t.word = w})

FirstSeen(tokens, w) ==
    CHOOSE i \in {t.at : t \in tokens} :
        /\ \E t \in tokens : t.word = w /\ t.at = i
        /\ \A t \in tokens : t.word = w => i <= t.at

\* the case-folded tokens of three characters or more that are no stop word
Qualifying(tokens) ==
    {w \in {t.word : t \in tokens} : Len(w) >= 3 /\ w \notin stop_words}

\* a ranks before b: more frequent, or as frequent and seen first
RanksBefore(tokens, a, b) ==
    \/ Frequency(tokens, a) > Frequency(tokens, b)
    \/ Frequency(tokens, a) = Frequency(tokens, b)
            /\ FirstSeen(tokens, a) < FirstSeen(tokens, b)

\* C9: get_top_keywords returns qualifying tokens only, each once, ranked by
\* frequency and then by first occurrence, the five first in that ranking and
\* fewer when fewer qualify; "cat cat dog dog dog bird" gives dog, cat, bird.
C9_TopKeywordsRanked ==
    kwOut.done =>
        LET top    == kwOut.top_keywords
            tokens == Tokens(kwText)
            qual   == Qualifying(tokens)
        IN
        /\ \A k \in DOMAIN top : top[k] \in qual
        /\ \A j, k \in DOMAIN top : j < k => RanksBefore(tokens, top[j], top[k])
        /\ Len(top) = IF Cardinality(qual) < 5 THEN Cardinality(qual) ELSE 5
        /\ \A w \in qual \ Range(top) :
                \A k \in DOMAIN top : RanksBefore(tokens, top[k], w)
        /\ kwText = ExampleText =>
                top = <<<<"d","o","g">>, <<"c","a","t">>, <<"b","i","r","d">>>>

C9_Witness ==
    /\ kwOut.done
    /\ Cardinality(Qualifying(Tokens(kwText))) > 5
    /\ \E a, b \in Range(kwOut.top_keywords) :
            a # b /\ Frequency(Tokens(kwText), a) = Frequency(Tokens(kwText), b)

\* C10: while an upload waits for the summarizer's answer, every other request
\* in flight can take its next step.
C10_SummarizerWaitBlocksNoOne ==
    \A r, q \in Slots :
        (r # q /\ req[r].pc = "summarizing" /\ req[q].pc \notin {"idle", "done"}) =>
            ENABLED Step(q, FewInputs)

====
